---- MODULE Spec2Model ----
(***************************************************************************)
(* A model of transcribe.py: the batch runner main(), the file discoverer  *)
(* get_mp3_files() and the per-file transcribe_file().                     *)
(*                                                                         *)
(* Strings are sequences of one-character strings; a file's content is the *)
(* sequence of characters written to it.  The file system is the two       *)
(* directories the program can read (the default input folder and one      *)
(* directory "D" named on the command line) and the output folder.         *)
(* The speech model is an opaque collaborator: a call either returns a     *)
(* text drawn from Texts or raises.                                        *)
(*                                                                         *)
(* Modelled as given: whisper.load_model(), the two mkdir() calls and the  *)
(* print() calls return normally; what a per-file step raises is an        *)
(* Exception, which main() catches.  A failing write is cut at open(), at  *)
(* the first write or at the last one.  os.name is either: "posix", where  *)
(* glob patterns and file names match by case, or "nt", where they do not. *)
(***************************************************************************)
EXTENDS Integers, Sequences, FiniteSets, TLC

\* ------------------------------------------------------------------ bounds
MaxEntries == 3      \* entries in a directory that is listed
MaxBatch == 3        \* files in the list that discovery returns
MaxTextLen == 2      \* characters in a text returned by the model

\* --------------------------------------------------------------- constants
SepLen == 60
MODEL_SIZE == <<"b", "a", "s", "e">>

\* ------------------------------------------------------- sequence helpers
Last(s) == s[Len(s)]
Front(s) == SubSeq(s, 1, Len(s) - 1)
Range(s) == {s[i] : i \in 1..Len(s)}
Repeat(c, n) == [i \in 1..n |-> c]
EndsWith(s, suf) ==
    /\ Len(suf) <= Len(s)
    /\ SubSeq(s, Len(s) - Len(suf) + 1, Len(s)) = suf

RECURSIVE Concat(_)
Concat(ss) == IF ss = << >> THEN << >> ELSE Head(ss) \o Concat(Tail(ss))

\* ------------------------------------------------------ Python str methods
\* str.lower(), character by character
LowerChar(c) ==
    CASE c = "B" -> "b"
      [] c = "D" -> "d"
      [] c = "M" -> "m"
      [] c = "P" -> "p"
      [] OTHER -> c
lower(s) == [i \in 1..Len(s) |-> LowerChar(s[i])]

\* code points, for the comparison of strings
Code(c) ==
    CASE c = "." -> 46
      [] c = "3" -> 51
      [] c = "B" -> 66
      [] c = "M" -> 77
      [] c = "P" -> 80
      [] c = "a" -> 97
      [] c = "b" -> 98
      [] c = "c" -> 99
      [] c = "m" -> 109
      [] c = "p" -> 112
      [] c = "t" -> 116
      [] c = "x" -> 120
      [] OTHER -> 0

\* s < t for Python strings: lexicographic by code point
RECURSIVE StrLess(_, _)
StrLess(s, t) ==
    IF t = << >> THEN FALSE
    ELSE IF s = << >> THEN TRUE
    ELSE IF Code(s[1]) # Code(t[1]) THEN Code(s[1]) < Code(t[1])
    ELSE StrLess(Tail(s), Tail(t))

IsSpace(c) == c \in {" ", "\n", "\t"}

RECURSIVE lstrip(_)
lstrip(s) == IF s # << >> /\ IsSpace(s[1]) THEN lstrip(Tail(s)) ELSE s
RECURSIVE rstrip(_)
rstrip(s) == IF s # << >> /\ IsSpace(Last(s)) THEN rstrip(Front(s)) ELSE s
\* variant: only leading whitespace is removed
strip_leading(s) == lstrip(s)
\* str.strip()
strip(s) == rstrip(lstrip(s))

\* str.rfind("."): the last index of a dot, 0 when there is none
\* (Python's -1..n-1 shifted by one)
rfind_dot(s) ==
    LET I == {i \in 1..Len(s) : s[i] = "."}
    IN  IF I = {} THEN 0 ELSE CHOOSE i \in I : \A j \in I : j <= i

\* "%02d"-style formatting of a number in w digits
DigitChar(d) == <<"0", "1", "2", "3", "4", "5", "6", "7", "8", "9">>[d + 1]
RECURSIVE Pow10(_)
Pow10(n) == IF n = 0 THEN 1 ELSE 10 * Pow10(n - 1)
Digits(n, w) == [i \in 1..w |-> DigitChar((n \div Pow10(w - i)) % 10)]

\* ---------------------------------------------------------------- pathlib
\* The platform the program runs on: os.name.  On "nt" path matching and
\* file lookup ignore case and both "/" and "\" separate components.
Platforms == {"posix", "nt"}
os_sep(os) == IF os = "nt" THEN "\\" ELSE "/"
IsSep(os, c) == c = "/" \/ (os = "nt" /\ c = "\\")

\* the pieces of a string between its separators
Split(os, s) ==
    LET at == {i \in 1..Len(s) : IsSep(os, s[i])}
        n == Cardinality(at)
        cut(k) == IF k = 0 THEN 0
                  ELSE IF k = n + 1 THEN Len(s) + 1
                  ELSE CHOOSE i \in at : Cardinality({j \in at : j < i}) = k - 1
    IN  [k \in 1..(n + 1) |-> SubSeq(s, cut(k - 1) + 1, cut(k) - 1)]

\* Path(s): a path is the sequence of its components; empty components and
\* "." are dropped
Path(os, s) ==
    SelectSeq(Split(os, s), LAMBDA c : c # << >> /\ c # <<".">>)

\* str(p)
RECURSIVE str(_, _)
str(os, p) ==
    IF Len(p) = 0 THEN <<".">>
    ELSE IF Len(p) = 1 THEN p[1]
    ELSE p[1] \o <<os_sep(os)>> \o str(os, Tail(p))

\* p / name
Join(p, n) == Append(p, n)

\* p.name, p.suffix, p.stem
name(p) == IF p = << >> THEN << >> ELSE Last(p)
suffix(p) ==
    LET n == name(p)
        i == rfind_dot(n)
    IN  IF 1 < i /\ i < Len(n) THEN SubSeq(n, i, Len(n)) ELSE << >>
stem(p) ==
    LET n == name(p)
        i == rfind_dot(n)
    IN  IF 1 < i /\ i < Len(n) THEN SubSeq(n, 1, i - 1) ELSE n

\* ------------------------------------------------------------ file system
\* names a directory entry can have
FileNames ==
    { <<"a", ".", "m", "p", "3">>,
      <<"a", ".", "M", "P", "3">>,
      <<"B", ".", "M", "P", "3">>,
      <<"c", ".", "m", "p", "3">>,
      <<"c", ".", "M", "p", "3">>,
      <<"c", ".", "t", "x", "t">> }

SCRIPT_DIR == << >>
INPUT_FOLDER == Join(SCRIPT_DIR, <<"i", "n", "p", "u", "t">>)
OUTPUT_FOLDER == Join(SCRIPT_DIR, <<"o", "u", "t", "p", "u", "t">>)
DirD == <<<<"D">>>>

\* what a directory can hold: on "nt" no two entries differ only in case
Listings(os) ==
    {S \in SUBSET FileNames :
        /\ Cardinality(S) <= MaxEntries
        /\ os = "nt" => \A m, n \in S : lower(m) = lower(n) => m = n}

NoDir == [exists |-> FALSE, entries |-> {}]
DirOf(S) == [exists |-> TRUE, entries |-> S]

\* the entry of directory d that name n denotes, as a set (empty: none)
Lookup(os, fs, d, n) ==
    IF d \in DOMAIN fs /\ fs[d].exists
    THEN {e \in fs[d].entries : IF os = "nt" THEN lower(e) = lower(n) ELSE e = n}
    ELSE {}

is_file(os, fs, p) == Len(p) >= 1 /\ Lookup(os, fs, Front(p), Last(p)) # {}
is_dir(os, fs, p) == p \in DOMAIN fs /\ fs[p].exists

\* the names of d that pattern "*" + suf matches
GlobMatches(os, fs, d, suf) ==
    {n \in fs[d].entries :
        IF os = "nt" THEN EndsWith(lower(n), lower(suf)) ELSE EndsWith(n, suf)}

\* every order in which a directory scan can yield the elements of S
Orders(S) ==
    {o \in [1..Cardinality(S) -> S] : \A i, j \in 1..Cardinality(S) : o[i] = o[j] => i = j}

\* path.glob(pattern): the matching paths, in an order the scan decides
glob(os, fs, d, suf) ==
    {[i \in 1..Len(o) |-> Join(d, o[i])] : o \in Orders(GlobMatches(os, fs, d, suf))}

\* list.sort(key=lambda x: x.name.lower()): a stable sort
SortKey(x) == lower(name(x))
InsertSorted(x, s) ==
    LET later == {i \in 1..Len(s) : StrLess(SortKey(x), SortKey(s[i]))}
        k == IF later = {} THEN Len(s) + 1 ELSE CHOOSE i \in later : \A j \in later : i <= j
    IN  SubSeq(s, 1, k - 1) \o <<x>> \o SubSeq(s, k, Len(s))
RECURSIVE SortFrom(_, _)
SortFrom(rest, acc) ==
    IF rest = << >> THEN acc ELSE SortFrom(Tail(rest), InsertSorted(Head(rest), acc))
sort_by_name(s) == SortFrom(s, << >>)

\* ---------------------------------------------------------- get_mp3_files
None == << >>
Some(x) == <<x>>
Mp3Suffix == <<".", "m", "p", "3">>
Mp3SuffixUpper == <<".", "M", "P", "3">>

\* variant: the suffix of a single file is compared as it is spelled
get_mp3_files_exact(os, fs, arg) ==
    LET path == IF arg = None THEN INPUT_FOLDER ELSE Path(os, arg[1])
    IN  IF is_file(os, fs, path) /\ suffix(path) = Mp3Suffix
        THEN {<<str(os, path)>>}
        ELSE IF is_dir(os, fs, path)
        THEN {LET mp3_files == sort_by_name(l1 \o l2)
              IN  [i \in 1..Len(mp3_files) |-> str(os, mp3_files[i])] :
                  l1 \in glob(os, fs, path, Mp3Suffix),
                  l2 \in glob(os, fs, path, Mp3SuffixUpper)}
        ELSE {<< >>}

\* get_mp3_files(path): the set of lists the call can return (the order of
\* a directory scan is the file system's choice)
get_mp3_files(os, fs, arg) ==
    LET path == IF arg = None THEN INPUT_FOLDER ELSE Path(os, arg[1])
    IN  IF is_file(os, fs, path) /\ lower(suffix(path)) = Mp3Suffix
        THEN {<<str(os, path)>>}
        ELSE IF is_dir(os, fs, path)
        THEN {LET mp3_files == sort_by_name(l1 \o l2)
              IN  [i \in 1..Len(mp3_files) |-> str(os, mp3_files[i])] :
                  l1 \in glob(os, fs, path, Mp3Suffix),
                  l2 \in glob(os, fs, path, Mp3SuffixUpper)}
        ELSE {<< >>}

\* -------------------------------------------------------- transcribe_file
\* texts the model can return: result["text"]
Texts == UNION {[1..n -> {" ", "x"}] : n \in 0..MaxTextLen}

\* datetime.now() when the clock shows c seconds after 2024-01-05 09:00:00
now(c) == [Y |-> 2024, m |-> 1, d |-> 5, H |-> 9, M |-> c \div 60, S |-> c % 60]
\* t.strftime('%Y-%m-%d %H:%M:%S')
strftime(t) ==
    Digits(t.Y, 4) \o <<"-">> \o Digits(t.m, 2) \o <<"-">> \o Digits(t.d, 2) \o <<" ">>
        \o Digits(t.H, 2) \o <<":">> \o Digits(t.M, 2) \o <<":">> \o Digits(t.S, 2)

TxtSuffix == <<".", "t", "x", "t">>
\* variant: the artifact is named after the whole file name
output_path_of_name(os, audio_path, output_dir) ==
    Join(output_dir, name(Path(os, audio_path)) \o TxtSuffix)
\* output_dir / f"{audio_path.stem}.txt"
output_path_of(os, audio_path, output_dir) ==
    Join(output_dir, stem(Path(os, audio_path)) \o TxtSuffix)

\* the five f.write() calls of transcribe_file, in order; a literal of the
\* source is one element of the written sequence
Writes(os, audio_path, c, text) ==
    << <<"Transcription of: ">> \o name(Path(os, audio_path)) \o <<"\n">>,
       <<"Generated on: ">> \o strftime(now(c)) \o <<"\n">>,
       <<"Model used: whisper-">> \o MODEL_SIZE \o <<"\n">>,
       Repeat("=", SepLen) \o <<"\n", "\n">>,
       text >>

\* the entry of the output folder that name n opens, or n itself when new
Target(os, files, n) ==
    LET hit == {e \in DOMAIN files : IF os = "nt" THEN lower(e) = lower(n) ELSE e = n}
    IN  IF hit = {} THEN n ELSE CHOOSE e \in hit : TRUE

\* variant: the file is opened in append mode
open_a(os, files, n, ws, k) ==
    LET e == Target(os, files, n)
    IN  [f \in DOMAIN files \cup {e} |->
            IF f = e
            THEN (IF e \in DOMAIN files THEN files[e] ELSE << >>) \o Concat(SubSeq(ws, 1, k))
            ELSE files[f]]

\* open(output_path, "w") followed by the first k writes of ws:
\* the file is created or truncated and holds what was written
open_w(os, files, n, ws, k) ==
    LET e == Target(os, files, n)
    IN  [f \in DOMAIN files \cup {e} |-> IF f = e THEN Concat(SubSeq(ws, 1, k)) ELSE files[f]]

\* ------------------------------------------------------------------ state
VARIABLES
    os_name,       \* os.name
    argv,          \* sys.argv[1:]
    dirs,          \* the directories the run can read
    out,           \* the output folder: whether it exists, and its files
    clock,         \* seconds shown by the wall clock
    pc,            \* position in main()
    mp3_files,     \* main: the discovered list
    loads,         \* number of whisper.load_model() calls so far
    model,         \* main: the model handle (0: not bound yet)
    idx,           \* main: index of the file being processed
    result,        \* transcribe_file: result["text"] while the call is active
    output_files,  \* main: paths of the artifacts written
    log,           \* history: one record per model.transcribe() call
    stdout,        \* history: "usage" and "summary" records printed
    exit_status    \* -1 while running, then the process's exit status

vars == <<os_name, argv, dirs, out, clock, pc, mp3_files, loads, model, idx, result,
          output_files, log, stdout, exit_status>>

\* ----------------------------------------------------------- initial state
Slash == <<"/">>
ArgD == <<"D">>
\* command-line arguments: the directory, a file in it, and a file written
\* as ./D/a.mp3 and as D\B.MP3
Args ==
    {ArgD} \cup {ArgD \o Slash \o n : n \in FileNames}
        \cup {<<".">> \o Slash \o ArgD \o Slash \o <<"a", ".", "m", "p", "3">>,
              ArgD \o <<"\\">> \o <<"B", ".", "M", "P", "3">>}

\* an artifact left in the output folder by an earlier run
OldText == <<"o", "l", "d">>
OldNames == {<<"a">> \o TxtSuffix}
OldArtifact(n) == Concat(Writes("posix", stem(<<n>>) \o Mp3Suffix, 0, OldText))

\* the directories whose listing yields at most MaxBatch files
Batches(o) ==
    {S \in Listings(o) :
        \A l \in get_mp3_files(o, (DirD :> DirOf(S)), Some(ArgD)) : Len(l) <= MaxBatch}

Init ==
    /\ os_name \in Platforms
    /\ argv \in {<< >>} \cup {<<a>> : a \in Args}
    /\ \E S \in Batches(os_name), e \in BOOLEAN :
          LET d == IF e THEN DirOf(S) ELSE NoDir
          IN  dirs = IF argv = << >>
                   THEN (INPUT_FOLDER :> d) @@ (DirD :> NoDir)
                   ELSE (INPUT_FOLDER :> NoDir) @@ (DirD :> d)
    /\ \E e \in BOOLEAN, old \in SUBSET OldNames :
          out = IF e THEN [exists |-> TRUE, files |-> [n \in old |-> OldArtifact(n)]]
                ELSE [exists |-> FALSE, files |-> << >>]
    /\ clock = 1
    /\ pc = "start"
    /\ mp3_files = << >>
    /\ loads = 0
    /\ model = 0
    /\ idx = 0
    /\ result = << >>
    /\ output_files = << >>
    /\ log = << >>
    /\ stdout = << >>
    /\ exit_status = -1

\* ------------------------------------------------------------------ main()
\* input_path: sys.argv[1] if there is one, else None
input_path == IF Len(argv) > 0 THEN Some(argv[1]) ELSE None

\* the file the loop is at, and where its artifact goes
mp3_file == mp3_files[idx]
output_path == output_path_of(os_name, mp3_file, OUTPUT_FOLDER)

\* Path.mkdir(exist_ok=True)
mkdir(d) == IF d.exists THEN d ELSE DirOf({})

\* ensure_folders_exist()
EnsureFolders ==
    /\ pc = "start"
    /\ dirs' = [dirs EXCEPT ![INPUT_FOLDER] = mkdir(@)]
    /\ out' = [out EXCEPT !.exists = TRUE]
    /\ pc' = "discover"
    /\ UNCHANGED <<os_name, argv, clock, mp3_files, loads, model, idx, result,
                   output_files, log, stdout, exit_status>>

\* mp3_files = get_mp3_files(input_path)
Discover ==
    /\ pc = "discover"
    /\ mp3_files' \in get_mp3_files(os_name, dirs, input_path)
    /\ pc' = "check"
    /\ UNCHANGED <<os_name, argv, dirs, out, clock, loads, model, idx, result,
                   output_files, log, stdout, exit_status>>

\* variant: the model is loaded before the list is looked at
NoFilesAfterLoad ==
    /\ pc = "check"
    /\ mp3_files = << >>
    /\ loads' = loads + 1
    /\ model' = loads + 1
    /\ stdout' = Append(stdout, [kind |-> "usage"])
    /\ exit_status' = 1
    /\ pc' = "exit"
    /\ UNCHANGED <<os_name, argv, dirs, out, clock, mp3_files, idx,
                   result, output_files, log>>

\* if not mp3_files: print the usage text; sys.exit(1)
NoFiles ==
    /\ pc = "check"
    /\ mp3_files = << >>
    /\ stdout' = Append(stdout, [kind |-> "usage"])
    /\ exit_status' = 1
    /\ pc' = "exit"
    /\ UNCHANGED <<os_name, argv, dirs, out, clock, mp3_files, loads, model, idx,
                   result, output_files, log>>

\* model = whisper.load_model(MODEL_SIZE); output_files = []
LoadModel ==
    /\ pc = "check"
    /\ mp3_files # << >>
    /\ loads' = loads + 1
    /\ model' = loads + 1
    /\ output_files' = << >>
    /\ idx' = 1
    /\ pc' = "loop"
    /\ UNCHANGED <<os_name, argv, dirs, out, clock, mp3_files, result, log, stdout,
                   exit_status>>

\* one more model.transcribe(str(audio_path)) call, with the handle given
Called(res) == Append(log, [file |-> mp3_file, handle |-> model, res |-> res])
\* the outcome of the file whose call is the last of the log
Finished(res) == [log EXCEPT ![Len(log)].res = res]

\* variant: the exception is not caught and ends the run
ModelRaisesAborts ==
    /\ pc = "loop"
    /\ idx <= Len(mp3_files)
    /\ log' = Called("terr")
    /\ clock' = clock + 1
    /\ exit_status' = 1
    /\ pc' = "exit"
    /\ UNCHANGED <<os_name, argv, dirs, out, mp3_files, loads, model, idx, result,
                   output_files, stdout>>

\* variant: the artifact is opened for writing before the model is called
ModelRaisesAfterOpen ==
    /\ pc = "loop"
    /\ idx <= Len(mp3_files)
    /\ log' = Called("terr")
    /\ clock' = clock + 1
    /\ idx' = idx + 1
    /\ out' = [out EXCEPT !.files = open_w(os_name, @, name(output_path), << >>, 0)]
    /\ UNCHANGED <<os_name, argv, dirs, pc, mp3_files, loads, model, result,
                   output_files, stdout, exit_status>>

\* model.transcribe() raises: the except clause reports, the loop goes on
ModelRaises ==
    /\ pc = "loop"
    /\ idx <= Len(mp3_files)
    /\ log' = Called("terr")
    /\ clock' = clock + 1
    /\ idx' = idx + 1
    /\ UNCHANGED <<os_name, argv, dirs, out, pc, mp3_files, loads, model, result,
                   output_files, stdout, exit_status>>

\* variant: the model is loaded again for each file
ModelReturnsReloading ==
    /\ pc = "loop"
    /\ idx <= Len(mp3_files)
    /\ \E raw \in Texts : result' = raw
    /\ loads' = loads + 1
    /\ model' = loads + 1
    /\ log' = Append(log, [file |-> mp3_file, handle |-> loads + 1, res |-> "run"])
    /\ clock' = clock + 1
    /\ pc' = "write"
    /\ UNCHANGED <<os_name, argv, dirs, out, mp3_files, idx,
                   output_files, stdout, exit_status>>

\* model.transcribe() returns a result
ModelReturns ==
    /\ pc = "loop"
    /\ idx <= Len(mp3_files)
    /\ \E raw \in Texts : result' = raw
    /\ log' = Called("run")
    /\ clock' = clock + 1
    /\ pc' = "write"
    /\ UNCHANGED <<os_name, argv, dirs, out, mp3_files, loads, model, idx,
                   output_files, stdout, exit_status>>

\* what transcribe_file writes for the pending result
PendingWrites == Writes(os_name, mp3_file, clock, strip(result))

\* open() raises (k = -1: nothing touched), or the file is opened and an
\* error leaves it with the first k of the five writes: with none of them,
\* or with all but the text; the except clause reports, the loop goes on
FailPoints == {-1, 0, 4}
WriteRaises ==
    /\ pc = "write"
    /\ \E ws \in {PendingWrites}, n \in {name(output_path)} :
          \E k \in FailPoints :
              out' = IF k = -1 THEN out
                     ELSE [out EXCEPT !.files = open_w(os_name, @, n, ws, k)]
    /\ log' = Finished("werr")
    /\ result' = << >>
    /\ idx' = idx + 1
    /\ pc' = "loop"
    /\ UNCHANGED <<os_name, argv, dirs, clock, mp3_files, loads, model,
                   output_files, stdout, exit_status>>

\* the artifact is written; output_files.append(output_path)
WriteOk ==
    /\ pc = "write"
    /\ out' = [out EXCEPT !.files =
                  open_w(os_name, @, name(output_path), PendingWrites, 5)]
    /\ output_files' = Append(output_files, str(os_name, output_path))
    /\ log' = Finished("ok")
    /\ result' = << >>
    /\ idx' = idx + 1
    /\ pc' = "loop"
    /\ UNCHANGED <<os_name, argv, dirs, clock, mp3_files, loads, model,
                   stdout, exit_status>>

\* variant: the exit status reports per-file failures
SummaryFailing ==
    /\ pc = "loop"
    /\ idx > Len(mp3_files)
    /\ stdout' = Append(stdout,
          [kind |-> "summary",
           ok |-> Len(output_files),
           total |-> Len(mp3_files),
           names |-> [i \in 1..Len(output_files) |-> name(Path(os_name, output_files[i]))]])
    /\ exit_status' = IF Len(output_files) < Len(mp3_files) THEN 1 ELSE 0
    /\ pc' = "exit"
    /\ UNCHANGED <<os_name, argv, dirs, out, clock, mp3_files, loads, model, idx,
                   result, output_files, log>>

\* the summary after the loop; main() returns
Summary ==
    /\ pc = "loop"
    /\ idx > Len(mp3_files)
    /\ stdout' = Append(stdout,
          [kind |-> "summary",
           ok |-> Len(output_files),
           total |-> Len(mp3_files),
           names |-> [i \in 1..Len(output_files) |-> name(Path(os_name, output_files[i]))]])
    /\ exit_status' = 0
    /\ pc' = "exit"
    /\ UNCHANGED <<os_name, argv, dirs, out, clock, mp3_files, loads, model, idx,
                   result, output_files, log>>

Next ==
    \/ EnsureFolders
    \/ Discover
    \/ NoFiles
    \/ LoadModel
    \/ ModelRaises
    \/ ModelReturns
    \/ WriteRaises
    \/ WriteOk
    \/ Summary

Spec == Init /\ [][Next]_vars

\* ================================================================== claims
Failed(r) == r \in {"terr", "werr"}
SummaryPrinted == \E i \in 1..Len(stdout) : stdout[i].kind = "summary"
UsagePrinted == \E i \in 1..Len(stdout) : stdout[i].kind = "usage"

\* C1: failure isolation.  Whatever files fail (the model call raises or
\* the write raises), the calls made so far are the files of the discovered
\* list up to the loop's position, one call each, in discovery order; a
\* failure leaves the loop at the next file; and the run ends only on an
\* empty list or with every file attempted and the summary printed.
C1_FailureIsolation ==
    /\ Len(log) <= Len(mp3_files)
    /\ \A i \in 1..Len(log) : log[i].file = mp3_files[i]
    /\ pc = "loop" => Len(log) = idx - 1
    /\ pc = "write" => Len(log) = idx /\ idx <= Len(mp3_files)
    /\ pc = "exit" =>
          \/ mp3_files = << >> /\ log = << >>
          \/ Len(log) = Len(mp3_files) /\ SummaryPrinted /\ exit_status = 0

\* a finished three-file run whose first file failed in the model and whose
\* second failed in the write
C1_Witness ==
    /\ pc = "exit"
    /\ Len(mp3_files) = 3
    /\ Len(log) = 3
    /\ log[1].res = "terr"
    /\ log[2].res = "werr"
    /\ log[3].res = "ok"
    /\ SummaryPrinted

\* C2: exit status.  A finished run has status 0 exactly when discovery
\* returned at least one file, whatever the per-file failures, and status 1
\* exactly when it returned none; no status is set before the run ends.
C2_ExitStatus ==
    /\ pc # "exit" => exit_status = -1
    /\ pc = "exit" =>
          /\ mp3_files # << >> => exit_status = 0
          /\ mp3_files = << >> => exit_status = 1
          /\ exit_status \in {0, 1}

\* a finished run of two files or more, all failed, with status 0
C2_Witness ==
    /\ pc = "exit"
    /\ Len(mp3_files) >= 2
    /\ Len(log) = Len(mp3_files)
    /\ \A i \in 1..Len(log) : Failed(log[i].res)
    /\ exit_status = 0

\* C3: the model is loaded once.  No load happens before discovery has
\* returned a non-empty list; from then on exactly one load has happened,
\* it precedes every model call, and every call was given the handle that
\* load returned.
C3_LoadedOnce ==
    /\ pc \in {"start", "discover", "check"} => loads = 0 /\ log = << >>
    /\ pc \in {"loop", "write"} => loads = 1
    /\ (pc = "exit" /\ mp3_files # << >>) => loads = 1
    /\ loads = 1 => model = 1
    /\ \A i \in 1..Len(log) : loads = 1 /\ log[i].handle = model

\* a finished run in which three calls were made, some of them failing
C3_Witness ==
    /\ pc = "exit"
    /\ Len(log) = 3
    /\ \E i \in 1..3 : Failed(log[i].res)
    /\ \E i \in 1..3 : log[i].res = "ok"
    /\ loads = 1

\* C4: the no-work path.  Up to the check of the list no file of the output
\* folder is created or changed, no model is loaded and no call is made;
\* and when the list is empty the next step prints the usage text and ends
\* the run with status 1, still without loading, calling or writing.
C4_NoWork ==
    [][ /\ pc \in {"start", "discover"} =>
              out'.files = out.files /\ loads' = 0 /\ log' = << >>
        /\ (pc = "check" /\ mp3_files = << >>) =>
              /\ pc' = "exit"
              /\ exit_status' = 1
              /\ stdout' = <<[kind |-> "usage"]>>
              /\ out' = out
              /\ loads' = 0 /\ loads = 0
              /\ model' = 0
              /\ log' = << >> /\ log = << >>
      ]_vars

\* the run ended on the usage text for an existing file that is not an mp3,
\* with an earlier artifact in the output folder
C4_Witness ==
    /\ pc = "exit"
    /\ mp3_files = << >>
    /\ exit_status = 1
    /\ UsagePrinted
    /\ argv = <<ArgD \o Slash \o <<"c", ".", "t", "x", "t">>>>
    /\ <<"c", ".", "t", "x", "t">> \in dirs[DirD].entries
    /\ DOMAIN out.files # {}

\* ------------------------------------------- vocabulary of the other claims
\* the file name at the end of a path string, its base name and extension
\* (every name of FileNames is a base name, a dot and three characters)
FileNameOf(f) == Last(Path(os_name, f))
BaseName(f) == SubSeq(FileNameOf(f), 1, Len(FileNameOf(f)) - 4)
Extension(f) == SubSeq(FileNameOf(f), Len(FileNameOf(f)) - 2, Len(FileNameOf(f)))
ArtifactName(f) == BaseName(f) \o <<".", "t", "x", "t">>
ArtifactPath(f) == <<"o", "u", "t", "p", "u", "t">> \o <<os_sep(os_name)>> \o ArtifactName(f)

\* the files whose processing succeeded, in the order of the calls
Succeeded == SelectSeq(log, LAMBDA r : r.res = "ok")
SucceededFiles == [i \in 1..Len(Succeeded) |-> Succeeded[i].file]
NoWriteFailed == \A i \in 1..Len(log) : log[i].res # "werr"
\* the artifacts the run created or changed
Yielded == {n \in DOMAIN out.files : n \notin OldNames \/ out.files[n] # OldArtifact(n)}
\* the summary record printed last
LastSummary == stdout[Len(stdout)]
SummaryMatches ==
    /\ SummaryPrinted
    /\ LastSummary.ok = Len(Succeeded)
    /\ LastSummary.total = Len(mp3_files)
    /\ LastSummary.names = [i \in 1..Len(Succeeded) |-> ArtifactName(Succeeded[i].file)]

\* C5 as stated: a finished batch of n files of which k raised in the model
\* call, no write failing, leaves exactly n-k artifacts, one per successful
\* input and named after its base name, and the summary reports n-k of n
\* with the artifact names in discovery order.
C5_Original ==
    (pc = "exit" /\ mp3_files # << >> /\ NoWriteFailed) =>
        /\ Cardinality(Yielded) = Len(Succeeded)
        /\ Yielded = {ArtifactName(f) : f \in Range(SucceededFiles)}
        /\ SummaryMatches

\* C5 as amended: such a batch leaves exactly one artifact per distinct base
\* name among the n-k successful entries, named after it - n-k artifacts when
\* those base names are pairwise distinct - and the summary reports n-k of n
\* with the n-k artifact names, repeats included, in discovery order.
C5_ArtifactsAndSummary ==
    (pc = "exit" /\ mp3_files # << >> /\ NoWriteFailed) =>
        /\ Yielded = {ArtifactName(f) : f \in Range(SucceededFiles)}
        /\ Cardinality(Yielded) = Cardinality({BaseName(f) : f \in Range(SucceededFiles)})
        /\ (\A i, j \in 1..Len(Succeeded) :
               BaseName(Succeeded[i].file) = BaseName(Succeeded[j].file) => i = j)
             => Cardinality(Yielded) = Len(Succeeded)
        /\ SummaryMatches

\* the three-file batch whose second file raised: two artifacts, "2 of 3"
C5_Witness ==
    /\ pc = "exit"
    /\ Len(mp3_files) = 3
    /\ Len(log) = 3
    /\ log[1].res = "ok" /\ log[2].res = "terr" /\ log[3].res = "ok"
    /\ BaseName(mp3_files[1]) # BaseName(mp3_files[3])
    /\ Cardinality(Yielded) = 2
    /\ LastSummary.ok = 2 /\ LastSummary.total = 3

\* the directory main() has listed, as a set (empty: the target is none)
ListedDir ==
    IF argv = << >> THEN {INPUT_FOLDER}
    ELSE IF argv = <<ArgD>> /\ dirs[DirD].exists THEN {DirD}
    ELSE {}
\* discovery has just returned (the list and the directories stay as they
\* are from then on)
Discovered == pc = "check"
HasMp3Extension(n) ==
    lower(SubSeq(n, Len(n) - 3, Len(n))) = <<".", "m", "p", "3">>
SortedByLowerName ==
    \A i, j \in 1..Len(mp3_files) :
        i < j => ~StrLess(lower(FileNameOf(mp3_files[j])), lower(FileNameOf(mp3_files[i])))

\* C6 as stated: for a directory target the discovered list holds exactly
\* the entries whose extension is ".mp3" in any spelling of case, each one
\* once, in ascending order of the lower-cased file name.
C6_Original ==
    \A d \in ListedDir :
        Discovered =>
            LET E == {n \in dirs[d].entries : HasMp3Extension(n)}
            IN  /\ Len(mp3_files) = Cardinality(E)
                /\ \A n \in E :
                      \E i \in 1..Len(mp3_files) :
                          mp3_files[i] = d[1] \o <<os_sep(os_name)>> \o n
                /\ SortedByLowerName

\* the file the argument names on this platform, as a set of <<dir, entry>>
ArgPath == Path(os_name, argv[1])
ArgFile ==
    IF argv # << >> /\ Len(ArgPath) = 2 /\ ArgPath[1] = <<"D">> /\ dirs[DirD].exists
    THEN {e \in dirs[DirD].entries :
             IF os_name = "nt" THEN lower(e) = lower(ArgPath[2]) ELSE e = ArgPath[2]}
    ELSE {}

\* C7: a target that is not a directory.  An existing file whose extension
\* is ".mp3" in any spelling of case gives the list of that one path; an
\* existing file of another extension and a path that is neither a file nor
\* a directory give the empty list; without a target the list is that of
\* the default input folder.
C7_NonDirectory ==
    Discovered =>
        /\ (argv # << >> /\ ArgFile # {} /\ HasMp3Extension(ArgPath[2])) =>
              /\ Len(mp3_files) = 1
              /\ Path(os_name, mp3_files[1]) = ArgPath
        /\ (argv # << >> /\ ArgFile # {} /\ ~HasMp3Extension(ArgPath[2])) =>
              mp3_files = << >>
        /\ (argv # << >> /\ ArgFile = {} /\ ListedDir = {}) =>
              mp3_files = << >>
        /\ argv = << >> =>
              /\ \A i \in 1..Len(mp3_files) :
                    Front(Path(os_name, mp3_files[i])) = INPUT_FOLDER
              /\ mp3_files \in get_mp3_files(os_name, dirs, Some(str(os_name, INPUT_FOLDER)))

\* the single existing file D/B.MP3 was discovered
C7_Witness ==
    /\ Discovered
    /\ argv = <<ArgD \o Slash \o <<"B", ".", "M", "P", "3">>>>
    /\ ArgFile # {}
    /\ Len(mp3_files) = 1

\* a step in which the pending write succeeds: the list of artifacts grows
WriteSucceeds == pc = "write" /\ Len(output_files') = Len(output_files) + 1
\* a step in which the model call raises
CallRaises == Len(log') = Len(log) + 1 /\ log'[Len(log')].res = "terr"

\* C8: overwrite.  When a write succeeds, the artifact holds the header and
\* the transcript of that write and nothing else, whatever the destination
\* held before; no other file of the output folder appears, disappears or
\* changes.
C8_Overwrite ==
    [][ WriteSucceeds =>
          LET dest == ArtifactName(mp3_file)
          IN  /\ DOMAIN out'.files = DOMAIN out.files \cup {dest}
              /\ out'.files[dest] = Concat(Writes(os_name, mp3_file, clock, strip(result)))
              /\ \A n \in DOMAIN out.files \ {dest} : out'.files[n] = out.files[n]
      ]_vars

\* the same source file was transcribed twice with success, the destination
\* holding an artifact of an earlier run before the first of the two
C8_Witness ==
    /\ os_name = "nt"
    /\ Len(log) >= 2
    /\ log[1].file = log[2].file
    /\ log[1].res = "ok" /\ log[2].res = "ok"
    /\ ArtifactName(log[1].file) \in OldNames
    /\ DOMAIN out.files = {ArtifactName(log[1].file)}

\* the lines of a text: its pieces between line feeds
LinesAt(s, nl) ==
    LET n == Cardinality(nl)
        at(k) == IF k = 0 THEN 0
                 ELSE IF k = n + 1 THEN Len(s) + 1
                 ELSE CHOOSE i \in nl : Cardinality({j \in nl : j < i}) = k - 1
    IN  [k \in 1..(n + 1) |-> SubSeq(s, at(k - 1) + 1, at(k) - 1)]
Lines(s) == CHOOSE L \in {LinesAt(s, nl) : nl \in {{i \in 1..Len(s) : s[i] = "\n"}}} : TRUE

IsDigit(c) == c \in {"0", "1", "2", "3", "4", "5", "6", "7", "8", "9"}
\* YYYY-MM-DD HH:MM:SS
IsTimestamp(t) ==
    /\ Len(t) = 19
    /\ t[5] = "-" /\ t[8] = "-" /\ t[11] = " " /\ t[14] = ":" /\ t[17] = ":"
    /\ \A i \in (1..19) \ {5, 8, 11, 14, 17} : IsDigit(t[i])
\* t is raw without its leading and trailing whitespace
IsStripOf(t, raw) ==
    /\ t # << >> => ~IsSpace(t[1]) /\ ~IsSpace(t[Len(t)])
    /\ \E i \in 0..Len(raw) :
          /\ i + Len(t) <= Len(raw)
          /\ SubSeq(raw, i + 1, i + Len(t)) = t
          /\ \A j \in (1..i) \cup ((i + Len(t) + 1)..Len(raw)) : IsSpace(raw[j])

\* C9: artifact layout.  A successful write for a source file B.E leaves
\* the artifact B.txt in the output folder, listed under that path, holding
\* in this order the line "Transcription of: B.E", a "Generated on:" line
\* with a timestamp, the line "Model used: whisper-base", a line of exactly
\* 60 "=", an empty line, and the model's text without its leading and
\* trailing whitespace.
C9_Layout ==
    [][ WriteSucceeds =>
          \E B \in {BaseName(mp3_file)}, E \in {Extension(mp3_file)} :
          \E c \in {out'.files[B \o <<".", "t", "x", "t">>]} :
              LET \* where each line begins
                  p2 == 1 + Len(B) + 1 + Len(E) + 2
                  p3 == p2 + 1 + 19 + 1
                  p4 == p3 + 5 + 1
                  p5 == p4 + 60 + 1
                  p6 == p5 + 1
              IN  /\ FileNameOf(mp3_file) = B \o <<".">> \o E
                  /\ output_files'[Len(output_files')] = ArtifactPath(mp3_file)
                  /\ Len(c) >= p6 - 1
                  /\ SubSeq(c, 1, p2 - 1) = <<"Transcription of: ">> \o B \o <<".">> \o E \o <<"\n">>
                  /\ c[p2] = "Generated on: "
                  /\ IsTimestamp(SubSeq(c, p2 + 1, p2 + 19))
                  /\ c[p2 + 20] = "\n"
                  /\ SubSeq(c, p3, p4 - 1) = <<"Model used: whisper-", "b", "a", "s", "e", "\n">>
                  /\ \A i \in p4..(p4 + 59) : c[i] = "="
                  /\ c[p4 + 60] = "\n"
                  /\ c[p5] = "\n"
                  /\ IsStripOf(SubSeq(c, p6, Len(c)), result)
      ]_vars

\* B.MP3 was transcribed with success from a text with whitespace at an end:
\* B.txt ends with the line "x"
C9_Witness ==
    /\ Len(log) >= 1
    /\ log[Len(log)].res = "ok"
    /\ FileNameOf(log[Len(log)].file) = <<"B", ".", "M", "P", "3">>
    /\ <<"B", ".", "t", "x", "t">> \in DOMAIN out.files
    /\ LET L == Lines(out.files[<<"B", ".", "t", "x", "t">>])
       IN  Len(L) = 6 /\ L[6] = <<"x">> /\ L[1] = <<"Transcription of: ", "B", ".", "M", "P", "3">>

\* the listed artifacts are those of the files processed with success so far,
\* in discovery order
ListedAreSucceeded ==
    output_files = [i \in 1..Len(Succeeded) |-> ArtifactPath(Succeeded[i].file)]

\* C10: frame of a failed transcription.  A step in which the model call
\* raises changes neither the output folder nor the list of artifacts; the
\* output folder changes only in a write that follows the model call for the
\* same file; and the list of artifacts is always that of the files
\* processed with success so far, in discovery order.
C10_FailedCallFrame ==
    /\ []ListedAreSucceeded
    /\ [][ /\ CallRaises => out' = out /\ output_files' = output_files
           /\ out'.files # out.files =>
                 /\ pc = "write"
                 /\ log[Len(log)].res = "run"
                 /\ log[Len(log)].file = mp3_file
         ]_vars

\* the model call raised for a.mp3 while a.txt of an earlier run is in the
\* output folder, and a.txt is as it was
C10_Witness ==
    /\ pc = "exit"
    /\ Len(log) >= 2
    /\ log[1].res = "terr"
    /\ ArtifactName(log[1].file) = <<"a", ".", "t", "x", "t">>
    /\ log[2].res = "ok"
    /\ ArtifactName(log[2].file) # <<"a", ".", "t", "x", "t">>
    /\ <<"a", ".", "t", "x", "t">> \in DOMAIN out.files
    /\ out.files[<<"a", ".", "t", "x", "t">>] = OldArtifact(<<"a", ".", "t", "x", "t">>)
    /\ Len(output_files) = 1
====
